---- MODULE Spec2Model ----
(***************************************************************************)
(* TPS3424EVM + XIAO ESP32S3 interlock (src/src/main.cpp).                 *)
(*                                                                         *)
(* Two contexts share the globals: the falling-edge ISR onIntFalling(),    *)
(* which runs to completion whenever interrupts are enabled, and loop(),   *)
(* which is modelled statement by statement (pc holds the source line the  *)
(* loop executes next).  The environment drives the RESET pin and raises   *)
(* raw INT edges at any point.  Time is the free running millisecond       *)
(* counter; it advances in delay(1) at the end of each iteration.          *)
(* The once-a-second STAT print (lines 172-180) changes only               *)
(* g_lastReportMs and the serial output and is left out.                   *)
(***************************************************************************)
EXTENDS Integers, FiniteSets, Sequences, TLC

\* ---------------------------------------------------------------- constants
KILL_MIN_HOLD_MS == 800
KILL_TIMEOUT_MS == 3000
INT_DEBOUNCE_MS == 30
RESET_HIGH_MIN_MS_BEFORE_INT == 80
\* defined on line 22 and read nowhere in the program
STARTUP_GUARD_MS == 300
\* delay(100) in setup(): millis() is at least this when setup() samples RESET
SetupDelayMs == 100


\* ------------------------------------------------------------------- bounds
\* Width of the millisecond counter and of every timestamp.  The program's
\* uint32_t has 32 bits; TLC's integers are 32 bit signed and cannot hold
\* 2^32, so the counter is modelled narrower.  Every duration of the program
\* stays far below the word, as in the program.
WordBits == 29
Word == 2 ^ WordBits

\* Longest time one loop iteration may take while it has work to do (the
\* serial prints can block); stretches of iterations that change nothing are
\* covered by Quiet, whatever their length.
MaxPollMs == 30

\* Instants (true milliseconds since boot) at which the model lets the loop
\* run and the environment act: the setup instant and the thresholds around
\* it, the hold/timeout thresholds after a kill at the first qualifying
\* instant, and the instants around the roll-over of the 32 bit counter.
EdgeOffs ==
    {0, INT_DEBOUNCE_MS - 1, INT_DEBOUNCE_MS,
     RESET_HIGH_MIN_MS_BEFORE_INT - 1, RESET_HIGH_MIN_MS_BEFORE_INT,
     RESET_HIGH_MIN_MS_BEFORE_INT + INT_DEBOUNCE_MS - 1,
     RESET_HIGH_MIN_MS_BEFORE_INT + INT_DEBOUNCE_MS}
KillOffs ==
    {KILL_MIN_HOLD_MS - 1, KILL_MIN_HOLD_MS,
     KILL_TIMEOUT_MS - 1, KILL_TIMEOUT_MS}
WrapOffs ==
    {-1, 0, INT_DEBOUNCE_MS - 1, INT_DEBOUNCE_MS,
     RESET_HIGH_MIN_MS_BEFORE_INT - 1, RESET_HIGH_MIN_MS_BEFORE_INT}
Instants ==
    {SetupDelayMs + o : o \in EdgeOffs}
    \cup {SetupDelayMs + RESET_HIGH_MIN_MS_BEFORE_INT + o : o \in KillOffs}
    \cup {Word + o : o \in WrapOffs}

\* -------------------------------------------------------------------- state
VARIABLES
    clock,               \* true milliseconds since boot; millis() is clock mod Word
    reset,               \* level of PIN_RESET (TRUE = HIGH), driven by the supervisor
    killMode,            \* pin mode of PIN_KILL: "INPUT_PULLUP" or "OUTPUT"
    killLatch,           \* output latch of PIN_KILL: "LOW" or "HIGH"
    intsEnabled,         \* CPU interrupt enable (noInterrupts / interrupts)
    attached,            \* attachInterrupt(PIN_INT, onIntFalling, FALLING) done
    g_intPending,
    g_intStampMs,
    g_resetHighSinceMs,
    g_doKillFlag,
    g_lastReset,
    g_killActive,
    g_killAssertAt,
    last,                \* static uint32_t last in onIntFalling
    pc,                  \* next statement of setup()/loop(), by source line
    nowReset,            \* loop local (line 104)
    doKill,              \* loop local (line 122)
    intAt,               \* loop local (line 123)
    since,               \* loop local (line 124)
    \* ---- history variables (not program state)
    lineHighMs,          \* how long the RESET line itself has been high, capped at
                         \* RESET_HIGH_MIN_MS_BEFORE_INT; -1 while it is low
    stampAt,             \* true time g_resetHighSinceMs was stamped, -1 when cleared
    assertedAt,          \* true time g_killAssertAt was taken, -1 before the first
    pubAt,               \* true time of the latest accepted edge, -1 before the first
    pubReal,             \* the RESET line itself qualified at that edge
    doKillPub,           \* pubAt of the event the loop's doKill was read from
    intAtPub,            \* pubAt of the event the loop's intAt was read from
    doKillReal,          \* pubReal of the event the loop's doKill was read from
    unread,              \* the latest accepted edge has not been read by the loop
    dropped,             \* the latest accepted edge was consumed with the flag
                         \* true while KILL was asserted
    qualAt               \* true time of the latest edge published with the flag
                         \* true while KILL was idle, -1 when there is none or
                         \* an iteration started INT_DEBOUNCE_MS or more after it

vars ==
    <<clock, reset, killMode, killLatch, intsEnabled, attached, g_intPending,
      g_intStampMs, g_resetHighSinceMs, g_doKillFlag, g_lastReset, g_killActive,
      g_killAssertAt, last, pc, nowReset, doKill, intAt, since,
      lineHighMs, stampAt, assertedAt, pubAt, pubReal, doKillPub, intAtPub,
      doKillReal, unread, qualAt, dropped>>

\* the loop's own variables (never written by the ISR)
loopVars ==
    <<killMode, killLatch, intsEnabled, attached, g_resetHighSinceMs,
      g_lastReset, g_killActive, g_killAssertAt, pc, nowReset, doKill, intAt,
      since, stampAt, assertedAt, doKillPub, intAtPub, doKillReal>>

\* what the ISR writes
isrVars ==
    <<g_intPending, g_intStampMs, g_doKillFlag, last, pubAt, pubReal>>

envVars == <<clock, reset, lineHighMs>>

\* ------------------------------------------------------------------ helpers
\* millis(): the 32 bit millisecond counter
millis == clock % Word

Min(a, b) == IF a <= b THEN a ELSE b

\* uint32_t subtraction a - b
Sub32(a, b) == (a - b + Word) % Word

\* ---------------------------------------------------------------------- pin
\* killIdle(): pinMode(PIN_KILL, INPUT_PULLUP); the latch is not touched
killIdle ==
    /\ killMode' = "INPUT_PULLUP"
    /\ UNCHANGED killLatch

\* killAssert(), first statement: pinMode(PIN_KILL, OUTPUT)
killAssertMode ==
    /\ killMode' = "OUTPUT"
    /\ UNCHANGED killLatch

\* killAssert() writing the wrong level
killAssertWrite_High ==
    /\ killLatch' = "HIGH"
    /\ UNCHANGED killMode

\* killAssert(), second statement: digitalWrite(PIN_KILL, LOW)
killAssertWrite ==
    /\ killLatch' = "LOW"
    /\ UNCHANGED killMode

\* ------------------------------------------------------------------ initial
\* Globals as initialised at lines 27-37 and 58; the GPIO output latch has its
\* reset value (low) and the pin is an input until setup() configures it.
Init ==
    /\ clock = SetupDelayMs
    /\ reset \in BOOLEAN
    /\ killMode = "INPUT"
    /\ killLatch = "LOW"
    /\ intsEnabled = TRUE
    /\ attached = FALSE
    /\ g_intPending = FALSE
    /\ g_intStampMs = 0
    /\ g_resetHighSinceMs = 0
    /\ g_doKillFlag = FALSE
    /\ g_lastReset = FALSE
    /\ g_killActive = FALSE
    /\ g_killAssertAt = 0
    /\ last = 0
    /\ pc = "setup"
    /\ nowReset = FALSE
    /\ doKill = FALSE
    /\ intAt = 0
    /\ since = 0
    /\ lineHighMs = IF reset THEN RESET_HIGH_MIN_MS_BEFORE_INT ELSE -1
    /\ stampAt = -1
    /\ assertedAt = -1
    /\ pubAt = -1
    /\ pubReal = FALSE
    /\ doKillPub = -1
    /\ intAtPub = -1
    /\ doKillReal = FALSE
    /\ unread = FALSE
    /\ qualAt = -1
    /\ dropped = FALSE

\* -------------------------------------------------------------- environment
\* The supervisor changes the level of the RESET line.
ResetChange ==
    /\ reset' = ~reset
    /\ lineHighMs' = IF reset' THEN 0 ELSE -1
    /\ UNCHANGED clock
    /\ UNCHANGED loopVars
    /\ UNCHANGED isrVars
    /\ UNCHANGED <<unread, qualAt, dropped>>

\* ---------------------------------------------------------------------- ISR
\* line 59 with the window one millisecond short
Debounced_Short(now) == Sub32(now, last) < INT_DEBOUNCE_MS - 1

\* line 59 left out: every raw edge is accepted
Debounced_Off(now) == FALSE

\* line 59: the debounce test
Debounced(now) == Sub32(now, last) < INT_DEBOUNCE_MS

\* line 64
HighLongEnough(now) ==
    /\ g_resetHighSinceMs # 0
    /\ Sub32(now, g_resetHighSinceMs) >= RESET_HIGH_MIN_MS_BEFORE_INT

\* The RESET line itself has been high for the minimum time up to now.
RealHighLongEnough == lineHighMs >= RESET_HIGH_MIN_MS_BEFORE_INT

\* onIntFalling() that also clears the tracked stamp when it accepts an edge
onIntFalling_ClearsStamp ==
    /\ attached
    /\ intsEnabled
    /\ IF Debounced(millis)
       THEN UNCHANGED <<g_intPending, g_intStampMs, g_doKillFlag, last, pubAt, pubReal,
                        unread, qualAt, dropped, g_resetHighSinceMs, stampAt>>
       ELSE /\ last' = millis
            /\ g_doKillFlag' = HighLongEnough(millis)
            /\ g_intStampMs' = millis
            /\ g_intPending' = TRUE
            /\ pubAt' = clock
            /\ pubReal' = RealHighLongEnough
            /\ unread' = TRUE
            /\ dropped' = FALSE
            /\ qualAt' = IF HighLongEnough(millis) /\ ~g_killActive
                          THEN clock ELSE qualAt
            /\ g_resetHighSinceMs' = 0
            /\ stampAt' = -1
    /\ UNCHANGED envVars
    /\ UNCHANGED <<killMode, killLatch, intsEnabled, attached, g_lastReset,
                   g_killActive, g_killAssertAt, pc, nowReset, doKill, intAt,
                   since, assertedAt, doKillPub, intAtPub, doKillReal>>

\* onIntFalling(): a raw falling edge on INT, taken when interrupts are enabled
onIntFalling ==
    /\ attached
    /\ intsEnabled
    /\ IF Debounced(millis)
       THEN UNCHANGED <<g_intPending, g_intStampMs, g_doKillFlag, last, pubAt, pubReal,
                        unread, qualAt, dropped>>
       ELSE /\ last' = millis
            /\ g_doKillFlag' = HighLongEnough(millis)
            /\ g_intStampMs' = millis
            /\ g_intPending' = TRUE
            /\ pubAt' = clock
            /\ pubReal' = RealHighLongEnough
            /\ unread' = TRUE
            /\ dropped' = FALSE
            /\ qualAt' = IF HighLongEnough(millis) /\ ~g_killActive
                          THEN clock ELSE qualAt
    /\ UNCHANGED envVars
    /\ UNCHANGED loopVars

\* -------------------------------------------------------------------- setup
\* setup(), lines 83-93: killIdle(), sample RESET, stamp it, attach the ISR
Setup ==
    /\ pc = "setup"
    /\ killIdle
    /\ g_lastReset' = reset
    /\ g_resetHighSinceMs' = IF reset THEN millis ELSE 0
    /\ stampAt' = IF reset THEN clock ELSE -1
    /\ attached' = TRUE
    /\ pc' = "L104"
    /\ UNCHANGED <<intsEnabled, g_killActive, g_killAssertAt, nowReset, doKill,
                   intAt, since, assertedAt, doKillPub, intAtPub, doKillReal,
                   unread, qualAt, dropped>>
    /\ UNCHANGED envVars
    /\ UNCHANGED isrVars

\* --------------------------------------------------------------------- loop
\* Variables a loop statement leaves alone unless it says otherwise.
LoopFrame(changed) ==
    /\ UNCHANGED envVars
    /\ UNCHANGED isrVars
    /\ IF "mode" \in changed THEN TRUE ELSE UNCHANGED <<killMode, killLatch>>
    /\ IF "ints" \in changed THEN TRUE ELSE UNCHANGED intsEnabled
    /\ IF "track" \in changed THEN TRUE ELSE UNCHANGED <<g_lastReset, g_resetHighSinceMs, stampAt>>
    /\ IF "kill" \in changed THEN TRUE ELSE UNCHANGED <<g_killActive, g_killAssertAt, assertedAt>>
    /\ IF "nowReset" \in changed THEN TRUE ELSE UNCHANGED nowReset
    /\ IF "event" \in changed THEN TRUE ELSE UNCHANGED <<doKill, intAt, since, doKillPub, intAtPub, doKillReal>>
    /\ IF "read" \in changed THEN TRUE ELSE UNCHANGED unread
    /\ IF "drop" \in changed THEN TRUE ELSE UNCHANGED dropped
    /\ UNCHANGED <<attached, qualAt>>

\* line 104-105: sample RESET and compare with the tracked level
L104 ==
    /\ pc = "L104"
    /\ nowReset' = reset
    /\ pc' = IF reset # g_lastReset THEN "L106" ELSE "L120"
    /\ LoopFrame({"nowReset"})

\* line 106
L106 ==
    /\ pc = "L106"
    /\ g_lastReset' = nowReset
    /\ UNCHANGED <<g_resetHighSinceMs, stampAt>>
    /\ pc' = "L109"
    /\ LoopFrame({"track"})

\* the stamp written at lines 109-113 for the new tracked level
StampFor(level) == IF level THEN millis ELSE 0

\* lines 109-113
L109 ==
    /\ pc = "L109"
    /\ g_resetHighSinceMs' = StampFor(g_lastReset)
    /\ stampAt' = IF g_lastReset THEN clock ELSE -1
    /\ UNCHANGED g_lastReset
    /\ pc' = "L120"
    /\ LoopFrame({"track"})

\* line 120: test the pending flag (interrupts still enabled)
L120 ==
    /\ pc = "L120"
    /\ pc' = IF g_intPending THEN "L121" ELSE "L151"
    /\ LoopFrame({})

\* noInterrupts() that leaves interrupts enabled: no critical section
noInterrupts_Open == intsEnabled' = intsEnabled

\* noInterrupts()
noInterrupts == intsEnabled' = FALSE

\* interrupts()
interrupts == intsEnabled' = TRUE

\* line 121
L121 ==
    /\ pc = "L121"
    /\ noInterrupts
    /\ pc' = "L122"
    /\ LoopFrame({"ints"})

\* line 122
L122 ==
    /\ pc = "L122"
    /\ doKill' = g_doKillFlag
    /\ doKillPub' = pubAt
    /\ doKillReal' = pubReal
    /\ unread' = FALSE
    /\ UNCHANGED <<intAt, since, intAtPub>>
    /\ pc' = "L123"
    /\ LoopFrame({"event", "read"})

\* line 123
L123 ==
    /\ pc = "L123"
    /\ intAt' = g_intStampMs
    /\ intAtPub' = pubAt
    /\ UNCHANGED <<doKill, since, doKillPub, doKillReal>>
    /\ pc' = "L124"
    /\ LoopFrame({"event"})

\* line 124
L124 ==
    /\ pc = "L124"
    /\ since' = g_resetHighSinceMs
    /\ UNCHANGED <<doKill, intAt, doKillPub, intAtPub, doKillReal>>
    /\ pc' = "L125"
    /\ LoopFrame({"event"})

\* line 125 left out: the pending flag stays set
L125_NoClear ==
    /\ pc = "L125"
    /\ pc' = "L126"
    /\ UNCHANGED envVars
    /\ UNCHANGED isrVars
    /\ UNCHANGED <<killMode, killLatch, intsEnabled, attached, g_resetHighSinceMs,
                   g_lastReset, g_killActive, g_killAssertAt, nowReset, doKill,
                   intAt, since, stampAt, assertedAt, doKillPub, intAtPub,
                   doKillReal>>
    /\ UNCHANGED <<unread, qualAt, dropped>>

\* line 125 clearing the flag only while KILL is idle: an event consumed
\* during an assertion stays pending
L125_KeepWhileActive ==
    /\ pc = "L125"
    /\ g_intPending' = IF g_killActive THEN g_intPending ELSE FALSE
    /\ pc' = "L126"
    /\ UNCHANGED envVars
    /\ UNCHANGED <<g_intStampMs, g_doKillFlag, last, pubAt, pubReal>>
    /\ UNCHANGED <<killMode, killLatch, intsEnabled, attached, g_resetHighSinceMs,
                   g_lastReset, g_killActive, g_killAssertAt, nowReset, doKill,
                   intAt, since, stampAt, assertedAt, doKillPub, intAtPub,
                   doKillReal>>
    /\ UNCHANGED <<unread, qualAt, dropped>>

\* line 125: clear the pending flag (the one loop statement that writes the mailbox)
L125 ==
    /\ pc = "L125"
    /\ g_intPending' = FALSE
    /\ pc' = "L126"
    /\ UNCHANGED envVars
    /\ UNCHANGED <<g_intStampMs, g_doKillFlag, last, pubAt, pubReal>>
    /\ UNCHANGED <<killMode, killLatch, intsEnabled, attached, g_resetHighSinceMs,
                   g_lastReset, g_killActive, g_killAssertAt, nowReset, doKill,
                   intAt, since, stampAt, assertedAt, doKillPub, intAtPub,
                   doKillReal, unread, qualAt, dropped>>

\* line 126
L126 ==
    /\ pc = "L126"
    /\ interrupts
    /\ pc' = "L136"
    /\ LoopFrame({"ints"})

\* line 136 without the test of g_killActive: a consumed qualifying event
\* asserts again while KILL is asserted
ShouldAssert_Reentrant == doKill

\* line 136 without the test of doKill: any consumed event asserts KILL
ShouldAssert_AnyEvent == ~g_killActive

\* line 136: the condition under which the consumed event asserts KILL
ShouldAssert == doKill /\ ~g_killActive

\* (int32_t)x: the value of a timestamp read as a signed word
Int32(x) == IF x >= Word \div 2 THEN x - Word ELSE x

\* line 128: the duration the [INT] line prints, from the locals intAt and
\* since.  No instant of the model lies near half the word, so the signed
\* subtraction never overflows here.
highFor == IF since = 0 THEN -1 ELSE Int32(intAt) - Int32(since)

\* lines 128-136 and 145-147: print the event, then branch
L136 ==
    /\ pc = "L136"
    /\ pc' = IF ShouldAssert THEN "L142" ELSE "L151"
    /\ dropped' = IF doKillPub = pubAt THEN doKill /\ g_killActive ELSE dropped
    /\ LoopFrame({"drop"})

\* line 142, killAssert() first half (line 51)
L142 ==
    /\ pc = "L142"
    /\ killAssertMode
    /\ pc' = "L142w"
    /\ LoopFrame({"mode"})

\* line 142, killAssert() second half (line 52)
L142w ==
    /\ pc = "L142w"
    /\ killAssertWrite
    /\ pc' = "L143"
    /\ LoopFrame({"mode"})

\* lines 143-144
L143 ==
    /\ pc = "L143"
    /\ g_killActive' = TRUE
    /\ g_killAssertAt' = millis
    /\ assertedAt' = clock
    /\ pc' = "L151"
    /\ LoopFrame({"kill"})

\* lines 152-156 without the minimum hold: RESET low releases at once
ReleaseCond_NoHold(now, resetLevel) ==
    LET elapsed == Sub32(now, g_killAssertAt)
        resetLow == ~resetLevel
    IN  resetLow \/ (elapsed >= KILL_TIMEOUT_MS)

\* lines 152-156 without the timeout: only RESET low releases
ReleaseCond_NoTimeout(now, resetLevel) ==
    LET elapsed == Sub32(now, g_killAssertAt)
        resetLow == ~resetLevel
        minHoldOk == elapsed >= KILL_MIN_HOLD_MS
    IN  resetLow /\ minHoldOk

\* lines 152-156: the release condition as the loop evaluates it at time now
ReleaseCond(now, resetLevel) ==
    LET elapsed == Sub32(now, g_killAssertAt)
        resetLow == ~resetLevel
        minHoldOk == elapsed >= KILL_MIN_HOLD_MS
    IN  (resetLow /\ minHoldOk) \/ (elapsed >= KILL_TIMEOUT_MS)

\* lines 151-170: hold or release KILL
L151 ==
    /\ pc = "L151"
    /\ IF g_killActive /\ ReleaseCond(millis, reset)
       THEN /\ killIdle
            /\ g_killActive' = FALSE
            /\ UNCHANGED <<g_killAssertAt, assertedAt>>
       ELSE UNCHANGED <<killMode, killLatch, g_killActive, g_killAssertAt,
                        assertedAt>>
    /\ pc' = "L182"
    /\ LoopFrame({"mode", "kill"})

\* The polls of every millisecond from the present up to t (exclusive) would
\* change nothing: the tracked level is current, no event is pending, and the
\* release condition stays false.
Quiet(t) ==
    /\ reset = g_lastReset
    /\ ~g_intPending
    /\ g_killActive =>
         /\ t - clock <= KILL_TIMEOUT_MS
         /\ ~ReleaseCond((t - 1) % Word, reset)

\* the first instant after the present one
NextInstant ==
    CHOOSE t \in Instants \cup {clock} :
        /\ t > clock \/ \A u \in Instants : u <= clock
        /\ \A u \in Instants : u > clock => t <= u

\* line 182: delay(1); the next iteration starts at instant t
L182 ==
    /\ pc = "L182"
    /\ \E t \in Instants :
         /\ t > clock
         /\ \/ t - clock <= MaxPollMs
            \/ Quiet(t)
            \/ t = NextInstant
         /\ clock' = t
    /\ pc' = "L104"
    /\ nowReset' = FALSE
    /\ doKill' = FALSE
    /\ intAt' = 0
    /\ since' = 0
    /\ doKillPub' = -1
    /\ intAtPub' = -1
    /\ doKillReal' = FALSE
    /\ lineHighMs' = IF reset THEN Min(lineHighMs + (clock' - clock),
                                       RESET_HIGH_MIN_MS_BEFORE_INT)
                               ELSE -1
    /\ UNCHANGED reset
    /\ UNCHANGED isrVars
    /\ UNCHANGED <<killMode, killLatch, intsEnabled, attached, g_resetHighSinceMs,
                   g_lastReset, g_killActive, g_killAssertAt, stampAt, assertedAt,
                   unread, dropped>>
    /\ qualAt' = IF qualAt >= 0 /\ clock' - qualAt < INT_DEBOUNCE_MS
                  THEN qualAt ELSE -1

loop ==
    \/ L104 \/ L106 \/ L109
    \/ L120 \/ L121 \/ L122 \/ L123 \/ L124 \/ L125 \/ L126
    \/ L136 \/ L142 \/ L142w \/ L143
    \/ L151 \/ L182

Next ==
    \/ ResetChange
    \/ onIntFalling
    \/ Setup
    \/ loop

Spec == Init /\ [][Next]_vars

\* The Arduino core calls loop() again and again: the loop is never starved.
LiveSpec == Init /\ [][Next]_vars /\ WF_vars(loop)

\* the last instant of the model
Horizon == CHOOSE t \in Instants : \A u \in Instants : u <= t

\* ==================================================================== claims
\* pc values at which the loop is asserting KILL for the event it consumed
Asserting == pc \in {"L142", "L142w", "L143"}

\* C1: the kill output is asserted only in response to a fault edge before
\* which the RESET line itself had been continuously high for at least
\* RESET_HIGH_MIN_MS_BEFORE_INT up to the instant of the edge.
C1_KillOnlyAfterLineHigh == Asserting => doKillReal

\* C2: at every accepted fault edge the published g_doKillFlag is true if and
\* only if the tracked power-good state is asserted (a stamp is recorded) and
\* the time since the recorded stamp is at least RESET_HIGH_MIN_MS_BEFORE_INT.
C2_FlagIffTrackedHighLongEnough ==
    [][pubAt' # pubAt =>
         (g_doKillFlag' <=>
            (stampAt >= 0 /\ clock - stampAt >= RESET_HIGH_MIN_MS_BEFORE_INT))]_vars

\* C3: after setup and after the level-tracking step of every iteration a
\* stamp is recorded (g_resetHighSinceMs is not the "none" value 0) if and
\* only if g_lastReset is true; the stamp is written only when g_lastReset
\* has just changed: the current time on false -> true, 0 on true -> false.
C3_StampIffAsserted ==
    /\ [](pc \notin {"setup", "L109"} => ((g_resetHighSinceMs # 0) <=> g_lastReset))
    /\ [][g_resetHighSinceMs' # g_resetHighSinceMs =>
            /\ pc \in {"setup", "L109"}
            /\ g_resetHighSinceMs' = IF g_lastReset' THEN millis ELSE 0]_vars

\* pc values of the event-consuming part of an iteration (lines 120-148)
Consuming ==
    pc \in {"L121", "L122", "L123", "L124", "L125", "L126", "L136", "L142",
            "L142w", "L143"}

\* C4: g_killActive goes false -> true (and g_killAssertAt is taken) only at
\* lines 143-144 of an iteration that consumed an event with qualifies = true
\* while KILL was idle; while KILL is asserted, consuming an event changes
\* neither g_killActive nor g_killAssertAt, so the hold timer never restarts.
C4_AssertOnlyFromIdle ==
    [][/\ (~g_killActive /\ g_killActive') =>
            (pc = "L143" /\ doKill /\ doKillPub >= 0 /\ g_killAssertAt' = millis)
       /\ (g_killAssertAt' # g_killAssertAt) => (~g_killActive /\ g_killActive')
       /\ (g_killActive /\ Consuming) =>
            (g_killActive' /\ g_killAssertAt' = g_killAssertAt)]_vars

\* C4 witness: a qualifying event has been consumed while KILL is asserted.
C4_Witness == pc = "L136" /\ doKill /\ g_killActive

\* C5: while KILL is asserted since assertedAt, the poll of lines 151-170
\* releases it exactly when (RESET reads low and the time since the assertion
\* is at least KILL_MIN_HOLD_MS) or that time is at least KILL_TIMEOUT_MS;
\* nothing else releases it, so never before KILL_MIN_HOLD_MS have passed.
C5_ReleaseExactlyWhenDue ==
    [][/\ (pc = "L151" /\ pc' # pc /\ g_killActive) =>
            (~g_killActive' <=>
                \/ ~reset /\ clock - assertedAt >= KILL_MIN_HOLD_MS
                \/ clock - assertedAt >= KILL_TIMEOUT_MS)
       /\ (g_killActive /\ ~g_killActive') =>
            (pc = "L151" /\ clock - assertedAt >= KILL_MIN_HOLD_MS)]_vars

\* C5 witness: KILL has just been released on RESET low after the minimum
\* hold and before the timeout.
C5_Witness ==
    /\ pc = "L182"
    /\ ~g_killActive
    /\ killMode = "INPUT_PULLUP"
    /\ assertedAt >= 0
    /\ clock - assertedAt >= KILL_MIN_HOLD_MS
    /\ clock - assertedAt < KILL_TIMEOUT_MS
    /\ ~reset

\* C6: every assertion of KILL is released: an iteration never ends with KILL
\* asserted KILL_TIMEOUT_MS or more after the assertion, whatever RESET does
\* and however many edges arrive, and under a fairly scheduled loop KILL is
\* eventually released (unless the model's last instant comes before the
\* timeout is due).
C6_KillAlwaysReleased ==
    /\ []((pc = "L182" /\ g_killActive) => clock - assertedAt < KILL_TIMEOUT_MS)
    /\ g_killActive ~>
         (~g_killActive \/ (clock = Horizon /\ clock - assertedAt < KILL_TIMEOUT_MS))

\* C6 witness: the timeout is due while RESET is still high and a further
\* edge has been accepted since the assertion.
C6_Witness ==
    /\ pc = "L151"
    /\ g_killActive
    /\ reset
    /\ g_lastReset
    /\ clock - assertedAt >= KILL_TIMEOUT_MS
    /\ pubAt > assertedAt

\* C7: the pair (intAt, doKill) the loop consumes is the (timestamp,
\* qualifies) pair one single run of the ISR wrote: while the loop is inside
\* the read-and-clear section both copies come from the event in the mailbox,
\* and when it acts on them both still come from the same event, the flag
\* being the one the ISR computed for that event.
C7_ConsumedPairFromOneEvent ==
    /\ pc \in {"L123", "L124", "L125", "L126"} =>
         (pubAt >= 0 /\ doKillPub = pubAt /\ doKill = g_doKillFlag)
    /\ pc \in {"L124", "L125", "L126"} =>
         (intAtPub = pubAt /\ intAt = g_intStampMs)
    /\ pc \in {"L136", "L142", "L142w", "L143"} =>
         (doKillPub >= 0 /\ intAtPub = doKillPub /\ intAt = doKillPub % Word)

\* C7 witness: the loop acts on qualifies = true although the tracked state
\* no longer qualifies when the event is consumed, and a later edge has
\* already overwritten the mailbox.
C7_Witness ==
    /\ pc = "L136"
    /\ doKill
    /\ g_resetHighSinceMs = 0
    /\ pubAt > doKillPub

\* the present instant is less than INT_DEBOUNCE_MS after the last accepted edge
InDebounce == pubAt >= 0 /\ clock - pubAt < INT_DEBOUNCE_MS

\* C8: less than INT_DEBOUNCE_MS after the last accepted edge nothing is
\* published: no step writes the event timestamp, the qualifies flag or the
\* last-accepted timestamp or sets the pending flag, and a raw edge taken by
\* the ISR leaves the pending flag and the tracked power-good state as they
\* are; so two edges less than INT_DEBOUNCE_MS apart give at most one event.
C8_DebouncedEdgeDiscarded ==
    [][InDebounce =>
         /\ UNCHANGED <<g_intStampMs, g_doKillFlag, last, pubAt>>
         /\ g_intPending' => g_intPending
         /\ onIntFalling =>
              UNCHANGED <<g_intPending, g_lastReset, g_resetHighSinceMs>>]_vars

\* C8 witness: an edge has been accepted, time has moved on by less than
\* INT_DEBOUNCE_MS, its event is still pending and the ISR can run again.
C8_Witness ==
    /\ InDebounce
    /\ clock > pubAt
    /\ attached
    /\ intsEnabled
    /\ g_intPending

\* C9: a raw edge that arrives INT_DEBOUNCE_MS or more after the last accepted
\* edge, or before any edge has been accepted, is accepted: the ISR does not
\* take the discard branch of line 59 for it.
C9_SpacedEdgeAccepted ==
    (attached /\ (pubAt = -1 \/ clock - pubAt >= INT_DEBOUNCE_MS)) =>
        ~Debounced(millis)

\* level of the KILL line: the latch when the pin drives, pulled high otherwise
PinLevel == IF killMode = "OUTPUT" THEN killLatch ELSE "HIGH"

OutputLow == killMode = "OUTPUT" /\ killLatch = "LOW"

C11_DebounceAsTrueTime ==
    pubAt >= 0 => (Debounced(millis) <=> clock - pubAt < INT_DEBOUNCE_MS)

\* C11, power-good high duration: line 64 decides as the true time since the
\* stamp was taken does.
C11_HighDurationAsTrueTime ==
    stampAt >= 0 =>
        (HighLongEnough(millis) <=>
            clock - stampAt >= RESET_HIGH_MIN_MS_BEFORE_INT)

\* C11, minimum hold and timeout: lines 152-156 decide as the true time since
\* the assertion does.
C11_HoldAsTrueTime ==
    g_killActive =>
        (ReleaseCond(millis, reset) <=>
            \/ ~reset /\ clock - assertedAt >= KILL_MIN_HOLD_MS
            \/ clock - assertedAt >= KILL_TIMEOUT_MS)

\* C11: every duration comparison (debounce spacing, power-good high duration,
\* minimum hold, timeout) gives the outcome the true elapsed time gives, also
\* when the counter rolls over between the two timestamps or a timestamp is
\* taken while the counter reads 0.
C11_ComparisonsAsTrueTime ==
    /\ C11_DebounceAsTrueTime
    /\ C11_HighDurationAsTrueTime
    /\ C11_HoldAsTrueTime

\* The startup inhibit window of the tracked power-good state: open from the
\* stamp taken when RESET was seen high (at boot or on a rise) until RESET is
\* seen low or STARTUP_GUARD_MS have passed.
InhibitActive ==
    stampAt >= 0 /\ clock - stampAt < STARTUP_GUARD_MS

\* C12: an edge accepted while the startup inhibit window is active publishes
\* g_doKillFlag = false, however long RESET has been high.
C12_InhibitedEdgePublishesFalse ==
    [][(pubAt' # pubAt /\ InhibitActive) => ~g_doKillFlag']_vars

\* The flag of the event the loop is consuming: read from the mailbox on
\* line 122, held in the local afterwards.
ConsumedFlag == IF pc = "L122" THEN g_doKillFlag ELSE doKill

\* C13: a loop step of lines 122-148 that consumes an event whose flag is
\* false leaves g_killActive, g_killAssertAt and the KILL pin (mode and latch)
\* as they were, with KILL idle or asserted, and does nothing to the mailbox
\* but clear g_intPending.
C13_IgnoredEventNoAction ==
    [][(pc \in {"L122", "L123", "L124", "L125", "L126", "L136", "L142",
                "L142w", "L143"}
        /\ pc' # pc /\ ~ConsumedFlag) =>
           /\ UNCHANGED <<g_killActive, g_killAssertAt, killMode, killLatch>>
           /\ UNCHANGED <<g_doKillFlag, g_intStampMs>>
           /\ (g_intPending' # g_intPending => pc = "L125" /\ ~g_intPending')]_vars

\* an event with a false flag has been consumed while KILL is asserted
C13_Witness ==
    pc = "L151" /\ doKillPub >= 0 /\ ~doKill /\ g_killActive /\ ~g_intPending

\* C14: the mailbox is one slot.  It always holds the latest accepted edge (an
\* edge accepted before the loop consumed the previous one overwrites it);
\* every read of the slot by the loop (line 122) takes an event no earlier
\* consumption has read; whenever nothing is pending the latest event has been
\* read, so an event published during or just after lines 121-126 stays
\* pending; and a later poll reads it.
C14_SingleSlotMailbox ==
    /\ [](pubAt >= 0 => (g_intStampMs = pubAt % Word /\ last = g_intStampMs))
    /\ [][(pc = "L122" /\ pc' # pc) => (unread /\ g_intPending)]_vars
    /\ [](~g_intPending => ~unread)
    /\ unread ~> (~unread \/ clock = Horizon)

\* C14 witness: while the loop is still acting on the event it has read and
\* cleared, a newer edge has been accepted and is pending
C14_Witness ==
    /\ pc \in {"L136", "L142", "L142w", "L143", "L151"}
    /\ doKillPub >= 0
    /\ pubAt > doKillPub
    /\ g_intPending
    /\ unread

\* C15: when an edge was published with the flag true while KILL was idle and
\* a loop iteration runs after it less than INT_DEBOUNCE_MS later (the poll
\* period is shorter than the debounce window), KILL is asserted at the end
\* of that iteration: no later edge has replaced the event before the loop
\* consumed it.
C15_QualifyingFaultAsserted ==
    (/\ pc = "L182"
     /\ qualAt >= 0
     /\ qualAt < clock
     /\ clock - qualAt < INT_DEBOUNCE_MS) =>
        (g_killActive /\ assertedAt >= qualAt)

\* C15 witness: the iteration after a qualifying edge has asserted KILL, with
\* RESET low in between
C15_Witness ==
    /\ pc = "L182"
    /\ qualAt >= 0
    /\ qualAt < clock
    /\ clock - qualAt < INT_DEBOUNCE_MS
    /\ g_killActive
    /\ assertedAt = clock
    /\ ~g_lastReset

\* C16: a run of onIntFalling(), whether it accepts the edge or discards it,
\* leaves g_lastReset, g_resetHighSinceMs, g_killActive, g_killAssertAt and
\* the KILL pin (mode and latch) as they were; what it writes is the mailbox
\* (g_doKillFlag, g_intStampMs, g_intPending) and its own last.
C16_IsrWritesOnlyMailbox ==
    [][(onIntFalling \/ pubAt' # pubAt) =>
          UNCHANGED <<g_lastReset, g_resetHighSinceMs, g_killActive,
                      g_killAssertAt, killMode, killLatch, intsEnabled,
                      attached, pc, nowReset, doKill, intAt, since>>]_vars

\* C16 witness: an edge has just been accepted while KILL is asserted and the
\* tracked stamp is set
C16_Witness ==
    /\ g_intPending
    /\ pubAt = clock
    /\ g_intStampMs = millis
    /\ last = millis
    /\ g_killActive
    /\ killMode = "OUTPUT"
    /\ g_resetHighSinceMs # 0
    /\ g_lastReset

\* C17: the [INT] line printed for a consumed event whose decision is KILL
\* reports a duration of at least RESET_HIGH_MIN_MS_BEFORE_INT, never -1,
\* and reports -1 only for an event that does not qualify, also when RESET
\* changed between the edge and the consumption.
C17_KillLineReportsDecisionDuration ==
    pc = "L136" =>
        /\ doKill => highFor >= RESET_HIGH_MIN_MS_BEFORE_INT
        /\ highFor = -1 => ~doKill

\* C18: an event with the flag true that the loop consumed while KILL was
\* asserted is dropped, not deferred: it is no longer pending, and it is not
\* the event of any later assertion.  Every assertion is for the event read
\* in the same iteration, with the flag true, which no consumption has taken
\* before.
C18_DroppedEventNeverAsserts ==
    /\ dropped => ~g_intPending /\ ~unread
    /\ Asserting => doKill /\ doKillPub >= 0
    /\ (Asserting /\ doKillPub = pubAt) => ~dropped

\* C18 witness: KILL has been released and a new iteration has started while
\* the latest event is one that was dropped during the assertion
C18_Witness ==
    /\ dropped
    /\ ~g_killActive
    /\ killMode # "OUTPUT"
    /\ pc = "L120"
    /\ g_doKillFlag
    /\ clock > pubAt

====
